---- MODULE Spec2Model ----
(***************************************************************************)
(* Keithley 2636 control application: the instrument driver (device.py,    *)
(* class K2636), the measurement thread and the GUI handlers that start    *)
(* and cancel a transfer sweep (main.py), and the connection window        *)
(* (GUI.py).                                                               *)
(*                                                                         *)
(* Two execution contexts act on one K2636 object: the worker, which runs  *)
(* K2636.Transfer statement by statement, and the GUI thread, which runs   *)
(* the click handlers and the slots of the worker's signals.  Every write  *)
(* that reaches the instrument is appended to the history variable wire,   *)
(* every line the stream reader reads to rlog.                             *)
(***************************************************************************)
EXTENDS Integers, Sequences, FiniteSets, TLC

\* ------------------------------------------------------------------ bounds
\* Longest script file, in lines.
MaxScriptLen == 2
\* Lines other than EE the instrument emits during one Transfer call.
MaxLines == 2
\* Transport faults (a write or a read that raises) in one run of the model.
MaxFaults == 1
\* Sweeps started in one run of the model.
MaxSweeps == 2

\* ------------------------------------------------------- text of the lines
\* A line is a sequence of tokens: " " is one whitespace character, "@" "E"
\* "," "x" are themselves, and a numeral such as "1.5" is one token.
Numerals == {"0.0", "0.001", "0.0012", "0.0013", "1.0", "1.5", "2.0", "2.3", "2.6"}

\* float() of a numeral, in units of 1/10000.
FloatValue(t) ==
    CASE t = "0.0" -> 0
      [] t = "0.001" -> 10
      [] t = "0.0012" -> 12
      [] t = "0.0013" -> 13
      [] t = "1.0" -> 10000
      [] t = "1.5" -> 15000
      [] t = "2.0" -> 20000
      [] t = "2.3" -> 23000
      [] t = "2.6" -> 26000

RECURSIVE LStrip(_)
LStrip(s) == IF s # <<>> /\ Head(s) = " " THEN LStrip(Tail(s)) ELSE s

RECURSIVE RStrip(_)
RStrip(s) ==
    IF s # <<>> /\ s[Len(s)] = " " THEN RStrip(SubSeq(s, 1, Len(s) - 1)) ELSE s

\* str.strip()
Strip(s) == RStrip(LStrip(s))

\* str.startswith(p)
StartsWith(s, p) == Len(s) >= Len(p) /\ SubSeq(s, 1, Len(p)) = p

\* str.split(','): always at least one field, fields may be empty.
RECURSIVE SplitFrom(_, _, _)
SplitFrom(s, cur, acc) ==
    IF s = <<>> THEN Append(acc, cur)
    ELSE IF Head(s) = "," THEN SplitFrom(Tail(s), <<>>, Append(acc, cur))
    ELSE SplitFrom(Tail(s), Append(cur, Head(s)), acc)

Split(s) == SplitFrom(s, <<>>, <<>>)

\* float(v) succeeds on exactly one numeral with whitespace around it, and
\* raises ValueError on anything else.
IsFloat(v) == Len(Strip(v)) = 1 /\ Strip(v)[1] \in Numerals

Float(v) == FloatValue(Strip(v)[1])

SentinelData == <<"@", "@">>
SentinelEnd == <<"E", "E">>

\* len(values) >= 4
MinFields == 4
\* values[0] and values[3], as 1-based positions
GateField == 1
\* CurrentField naming the third field, channelA in the protocol's order.
CurrentField_Third == MinFields - 1
CurrentField == 4

\* IsDataLine without the strip(): a data line with leading whitespace is missed.
IsDataLine_NoStrip(line) == StartsWith(line, SentinelData)

\* line.strip().startswith("@@")
IsDataLine(line) == StartsWith(Strip(line), SentinelData)

\* IsEndLine taking every line that is not a data line for the end of the
\* stream.
IsEndLine_AnyOther(line) == ~IsDataLine(line)

\* line.strip().startswith("EE"), reached only when the line is no data line
IsEndLine(line) == ~IsDataLine(line) /\ StartsWith(Strip(line), SentinelEnd)

\* data = line.strip()[2:].strip(); values = data.split(',')
Values(line) == Split(Strip(SubSeq(Strip(line), 3, Len(Strip(line)))))

\* the line passes "if len(values) >= 4"
Accepted(line) == IsDataLine(line) /\ Len(Values(line)) >= MinFields

\* both float() calls of an accepted line succeed
Parses(line) ==
    IsFloat(Values(line)[GateField]) /\ IsFloat(Values(line)[CurrentField])

\* The lines the instrument may emit.
D1 == <<"@", "@", "1.0", ",", "0.0", ",", "2.0", ",", "0.001">>
D2 == <<"@", "@", "1.5", ",", "0.0", ",", "2.3", ",", "0.0012">>
D3 == <<"@", "@", "2.0", ",", "0.0", ",", "2.6", ",", "0.0013">>
W5 == <<" ", "@", "@", " ", "2.0", " ", ",", "0.0", ",", "2.6", ",", "0.0013", ",", "1.0", " ">>
SH == <<"@", "@", "1.0", ",", "0.0", ",", "2.0">>
BAD == <<"@", "@", "x", ",", "0.0", ",", "2.0", ",", "0.001">>
NOISE == <<"x">>
EE == <<"E", "E">>

DataLines == {D1, D2, W5, SH, BAD, NOISE}
Lines == DataLines \cup {EE}

\* ------------------------------------------------------------ script files
\* Line i of a script file (an opaque payload): consecutive lines differ.
ScriptLine(i) == IF i % 2 = 1 THEN "l1" ELSE "l2"

\* What open(tsp_dir + tsp) may find when the file exists: a file of up to
\* MaxScriptLen lines.
FileContents == {[i \in 1..n |-> ScriptLine(i)] : n \in 0..MaxScriptLen}

ForwardScript == "transfer-charact.tsp"
ReverseScript == "transfer-charact-2.tsp"
ForwardName == "-neg-pos-transfer.csv"
ReverseName == "-pos-neg-transfer.csv"

\* ScriptOf with the two scripts exchanged.
ScriptOf_Swapped(n) == IF n = 1 THEN ReverseScript ELSE ForwardScript

ScriptOf(n) == IF n = 1 THEN ForwardScript ELSE ReverseScript

\* OutputName with the two file names exchanged.
OutputName_Swapped(n) == IF n = 1 THEN ReverseName ELSE ForwardName

OutputName(n) == IF n = 1 THEN ForwardName ELSE ReverseName

\* AbortSeq without the command that stops the running script.
AbortSeq_NoAbort ==
    << "smua.source.output = smua.OUTPUT_OFF",
       "smub.source.output = smub.OUTPUT_OFF",
       "reset()" >>

\* The commands K2636.cancelOperation writes, in order.
AbortSeq ==
    << "abort",
       "smua.source.output = smua.OUTPUT_OFF",
       "smub.source.output = smub.OUTPUT_OFF",
       "reset()" >>

RunCommand == "script.anonymous.run()"

\* What a failing transport call raises: a pyvisa error (an Exception) or an
\* OSError of the ConnectionError family.
FaultKinds == {"VisaIOError", "ConnectionError"}

\* --------------------------------------------------------------- addresses
\* An address is a sequence of tokens; the name of a transport class is one
\* token.
TransportClasses == {"ttyS", "ttyUSB", "USB"}

\* config.ADDRESS as config.py sets it, another USB address, and an address
\* of no supported class.
DefaultAddress == << "USB", "0::1510::9782::4399155::0::INSTR" >>
OtherUsbAddress == << "USB", "0::1510::9782::0000000::0::INSTR" >>
LanAddress == << "TCPIP", "0::192.168.0.2::INSTR" >>

\* address=None, the constructor's default.
NoAddress == << >>

\* The addresses a caller or the user may give.
Addresses == {DefaultAddress, OtherUsbAddress, LanAddress}

\* The resources at which an instrument is attached.
Attached == {DefaultAddress, LanAddress}

\* any(x in str(address) for x in ('ttyS', 'ttyUSB', 'USB'))
Supported(address) == \E i \in 1..Len(address) : address[i] \in TransportClasses

\* rm.open_resource(resource) succeeds: an instrument is attached there and
\* the transport is up.
CanOpen(resource, up) == up /\ resource \in Attached

\* makeConnection(rm, address, ...) while config.ADDRESS is cfg: the class of
\* address is tested and the resource config.ADDRESS is opened; every failure
\* becomes ConnectionError.
MakeConnection(address, cfg, up) ==
    IF Supported(address) /\ CanOpen(cfg, up) THEN "open" ELSE "ConnectionError"

\* The record of one construction of a K2636.
Attempt(address, cfg, up) ==
    [ given |-> address, target |-> cfg, up |-> up,
      result |-> MakeConnection(address, cfg, up) ]

NoAttempt == [ given |-> <<>>, target |-> <<>>, up |-> FALSE, result |-> "none" ]

\* -------------------------------------------------------------- readBuffer
\* The four queries of readBuffer, in order.
BufferQueries ==
    << "printbuffer(1, smua.nvbuffer1.n, smua.nvbuffer1.sourcevalues)",
       "printbuffer(1, smua.nvbuffer1.n, smua.nvbuffer1.readings)",
       "printbuffer(1, smub.nvbuffer1.n, smub.nvbuffer1.sourcevalues)",
       "printbuffer(1, smub.nvbuffer1.n, smub.nvbuffer1.readings)" >>

\* What the instrument may answer to a query: a buffer of two readings or of one.
ReplyTwo == << "1.0", ",", "2.0" >>
ReplyOne == << "1.5" >>

\* 'Serial port busy, try again.' and 'CONNECTION ERROR: No connection
\* established.', the texts _query returns in place of an answer ("x" is a
\* run of characters that is no numeral).
BusyText == << "x", ",", " ", "x" >>
NoConnectionText == << "x" >>

\* What happens to one query on the transport: it is answered, the serial
\* port is busy (serial.SerialException), or the transport fails otherwise.
QueryEvents == {"two", "one", "busy", "fault"}

\* _query(s) on a session, the transport doing ev: the text it returns, or
\* the exception that leaves it.
Query(session, ev) ==
    IF session = "absent" THEN [raised |-> "none", text |-> NoConnectionText]
    ELSE IF session = "closed" THEN [raised |-> "VisaIOError", text |-> <<>>]
    ELSE IF ev = "busy" THEN [raised |-> "none", text |-> BusyText]
    ELSE IF ev = "fault" THEN [raised |-> "VisaIOError", text |-> <<>>]
    ELSE [raised |-> "none", text |-> IF ev = "two" THEN ReplyTwo ELSE ReplyOne]

\* [float(x) for x in text.split(',')] succeeds
AllFloat(text) == \A i \in 1..Len(Split(text)) : IsFloat(Split(text)[i])

Floats(text) == [i \in 1..Len(Split(text)) |-> Float(Split(text)[i])]

\* DataFrame without pandas' test that all columns have one length.
DataFrame_NoLengthCheck(cols) ==
    [ outcome |-> "table",
      table |-> [gateV |-> cols[1], channelV |-> cols[3],
                 channelA |-> cols[4], gateLeakage |-> cols[2]] ]

\* pd.DataFrame of the four lists vg, ig, vd, c: columns of different lengths
\* raise ValueError.
DataFrame(cols) ==
    IF \A i \in 1..Len(cols) : Len(cols[i]) = Len(cols[1])
    THEN [ outcome |-> "table",
           table |-> [gateV |-> cols[1], channelV |-> cols[3],
                      channelA |-> cols[4], gateLeakage |-> cols[2]] ]
    ELSE [ outcome |-> "ValueError", table |-> <<>> ]

\* readBuffer from its k-th query on, cols being the lists parsed so far: it
\* ends at the first query that raises or whose text float() rejects; its
\* "except serial.SerialException" clause returns None.
RECURSIVE ReadBufferFrom(_, _, _, _)
ReadBufferFrom(session, evs, k, cols) ==
    IF k > Len(BufferQueries)
    THEN [ issued |-> SubSeq(BufferQueries, 1, k - 1),
           outcome |-> DataFrame(cols).outcome,
           table |-> DataFrame(cols).table ]
    ELSE LET r == Query(session, evs[k]) IN
         IF r.raised = "SerialException"
         THEN [ issued |-> SubSeq(BufferQueries, 1, k), outcome |-> "None",
                table |-> <<>> ]
         ELSE IF r.raised # "none"
         THEN [ issued |-> SubSeq(BufferQueries, 1, k), outcome |-> r.raised,
                table |-> <<>> ]
         ELSE IF ~AllFloat(r.text)
         THEN [ issued |-> SubSeq(BufferQueries, 1, k), outcome |-> "ValueError",
                table |-> <<>> ]
         ELSE ReadBufferFrom(session, evs, k + 1, Append(cols, Floats(r.text)))

\* readBuffer()
ReadBuffer(session, evs) == ReadBufferFrom(session, evs, 1, <<>>)

\* What K2636.closeConnection reports: the AttributeError of a missing
\* session is caught and 'No connection established' printed; close() of an
\* open session and close() of a closed one (pyvisa ignores its own
\* InvalidSession) return silently.
CloseReport(session) == IF session = "absent" THEN "NotConnected" ELSE "none"

\* ------------------------------------------------------------------- state
VARIABLES
    via,              \* who calls Transfer: "thread" (measureThread.run) or "direct"
    wpc,              \* the worker's position
    scan,             \* 1: forward scan, 2: reverse scan
    cancel_check,     \* Transfer's argument: "False" (the default), "None" or "callable"
    data_callback,    \* Transfer's argument: "None" (the default) or "callable"
    inst,             \* K2636.inst: "absent" (no attribute), "open" or "closed"
    cancel_requested, \* measureThread._cancel_requested, the flag a callable check reads
    cancelAt,         \* history: the worker's position when the flag was set
    lateLines,        \* history: the lines the current Transfer call read with the flag set
    script,           \* lines of the file loadTSP is uploading
    idx,              \* next line of script to write
    aidx,             \* next command of AbortSeq the worker writes
    wire,             \* history: every write that reached the instrument, [who, cmd]
    rlog,             \* history: lines read by the current _readRealTimeData call
    nlines,           \* lines other than EE read by the current Transfer call
    gate_voltages,    \* _readRealTimeData's local list
    channel_currents, \* _readRealTimeData's local list
    snapshots,        \* history: the tables the current reader call gave data_callback
    waited,           \* milliseconds the worker's current inst.read() has waited
    persisted,        \* files written by the current Transfer call, [name, table]
    steps,            \* history: the steps of the current Transfer call, in order
    outcome,          \* how Transfer ended: "none" while it has not
    emitted,          \* signals the current measureThread has emitted
    sigq,             \* emitted signals whose slot has not run yet
    transferEnabled,  \* buttonWidget.transferBtn.isEnabled()
    guiKeithley,      \* GUI.keithley is not None
    gpc,              \* GUI thread: 0 idle, k in 1..4 about to write AbortSeq[k]
    faults,           \* transport faults so far
    sweeps,           \* sweeps started so far
    cancels,          \* cancel requests so far
    config_address,   \* config.ADDRESS
    lastOpen,         \* history: the last K2636 a caller of the driver constructed
    pendingStart,     \* transferSweep is waiting in the old thread's __del__
    closeLog,         \* history: the closeConnection calls of the driver's caller
    buf               \* history: the last readBuffer call

vars ==
    << via, wpc, scan, cancel_check, data_callback, inst, cancel_requested, cancelAt,
       lateLines, script, idx,
       aidx, wire, rlog, nlines, gate_voltages, channel_currents, snapshots, waited,
       persisted, steps, outcome,
       emitted, sigq, transferEnabled, guiKeithley, gpc, faults, sweeps, cancels,
       config_address, lastOpen, pendingStart, closeLog, buf >>

\* The state of the connection window and of the driver's other operations.
sideVars == << config_address, lastOpen, pendingStart, closeLog, buf >>

\* closeConnection calls on one object in one run of the model.
MaxCloses == 2

\* No readBuffer call was made.
NoBuffer == [ session |-> "none", events |-> <<>>, issued |-> <<>>, outcome |-> "none",
              table |-> <<>> ]

\* Requests to cancel in one run of the model.
MaxCancels == 1

Init ==
    /\ via \in {"thread", "direct"}
    /\ wpc = "idle"
    /\ scan = 1
    /\ cancel_check = "False"
    /\ data_callback = "None"
    /\ inst = "absent"
    /\ cancel_requested = FALSE
    /\ cancelAt = "none"
    /\ lateLines = <<>>
    /\ script = <<>>
    /\ idx = 1
    /\ aidx = 1
    /\ wire = <<>>
    /\ rlog = <<>>
    /\ nlines = 0
    /\ gate_voltages = <<>>
    /\ channel_currents = <<>>
    /\ snapshots = <<>>
    /\ waited = 0
    /\ persisted = <<>>
    /\ steps = <<>>
    /\ outcome = "none"
    /\ emitted = <<>>
    /\ sigq = <<>>
    /\ transferEnabled = TRUE
    /\ guiKeithley = FALSE
    /\ gpc = 0
    /\ faults = 0
    /\ sweeps = 0
    /\ cancels = 0
    /\ config_address = DefaultAddress
    /\ lastOpen = NoAttempt
    /\ pendingStart = FALSE
    /\ closeLog = <<>>
    /\ buf = NoBuffer

\* measureThread.isRunning()
IsRunning == via = "thread" /\ wpc \notin {"idle", "ended"}

\* The state a fresh Transfer call starts from.
StartTransfer(cc, cb, session) ==
    /\ wpc' = "loadscript"
    /\ scan' = 1
    /\ cancel_check' = cc
    /\ data_callback' = cb
    /\ inst' = session
    /\ cancel_requested' = FALSE
    /\ cancelAt' = "none"
    /\ lateLines' = <<>>
    /\ script' = <<>>
    /\ idx' = 1
    /\ aidx' = 1
    /\ wire' = <<>>
    /\ rlog' = <<>>
    /\ nlines' = 0
    /\ gate_voltages' = <<>>
    /\ channel_currents' = <<>>
    /\ snapshots' = <<>>
    /\ waited' = 0
    /\ persisted' = <<>>
    /\ steps' = <<>>
    /\ outcome' = "none"
    /\ emitted' = <<>>
    /\ sweeps' = sweeps + 1

\* ------------------------------------------------- how Transfer's end is seen
\* TransferOutcome without the "except UserCancelledError: raise" clause, the
\* cancellation falling into the clause that prints and returns.
TransferOutcome_SwallowCancel(exc) ==
    IF exc \in {"AttributeError", "UserCancelledError"} THEN "no_connection" ELSE exc

\* Transfer's except clauses: UserCancelledError is re-raised, AttributeError
\* is printed and swallowed (Transfer returns), anything else propagates.
TransferOutcome(exc) == IF exc = "AttributeError" THEN "no_connection" ELSE exc

\* Transfer returned instead of raising.
Returned(o) == o \in {"completed", "no_connection"}

\* Where the worker goes when Transfer has ended with outcome o: a direct call
\* is over; measureThread.run goes on after a return or an Exception, and
\* SystemExit (a BaseException) passes through its except clauses and ends it.
AfterTransfer(o) ==
    IF via = "direct" THEN "ended"
    ELSE IF o = "SystemExit" THEN "ended"
    ELSE "tail"

\* Raise with the cancellation ending the read loop as an EE line does,
\* instead of raising.
Raise_CancelBreaks(exc) ==
    IF exc = "UserCancelledError"
    THEN wpc' = "persist" /\ UNCHANGED outcome
    ELSE /\ outcome' = TransferOutcome(exc)
         /\ wpc' = AfterTransfer(TransferOutcome(exc))

\* The worker raises exc inside Transfer.
Raise(exc) ==
    /\ outcome' = TransferOutcome(exc)
    /\ wpc' = AfterTransfer(TransferOutcome(exc))

\* ------------------------------------------------------------- the worker
guiVars == << transferEnabled, guiKeithley, gpc, sigq, cancels, emitted >>
readerVars == << rlog, nlines, gate_voltages, channel_currents, snapshots, waited >>

\* WorkerWrite with _write letting the AttributeError of a missing session
\* pass instead of printing it.
WorkerWrite_Propagates(cmd, next) ==
    \/ /\ inst = "absent"
       /\ Raise("AttributeError")
       /\ UNCHANGED << wire, faults >>
    \/ /\ inst = "open"
       /\ wire' = Append(wire, [who |-> "worker", cmd |-> cmd])
       /\ wpc' = next
       /\ UNCHANGED << outcome, faults >>
    \/ /\ inst = "open"
       /\ faults < MaxFaults
       /\ faults' = faults + 1
       /\ \E k \in FaultKinds : Raise(k)
       /\ UNCHANGED wire
    \/ /\ inst = "closed"
       /\ Raise("VisaIOError")
       /\ UNCHANGED << wire, faults >>

\* K2636._write(cmd) called by the worker at a place followed by next: without
\* an inst attribute the AttributeError is printed and swallowed, on an open
\* session the command reaches the instrument or the transport raises, on a
\* closed session pyvisa raises.
WorkerWrite(cmd, next) ==
    \/ /\ inst = "absent"
       /\ wpc' = next
       /\ UNCHANGED << wire, outcome, faults >>
    \/ /\ inst = "open"
       /\ wire' = Append(wire, [who |-> "worker", cmd |-> cmd])
       /\ wpc' = next
       /\ UNCHANGED << outcome, faults >>
    \/ /\ inst = "open"
       /\ faults < MaxFaults
       /\ faults' = faults + 1
       /\ \E k \in FaultKinds : Raise(k)
       /\ UNCHANGED wire
    \/ /\ inst = "closed"
       /\ Raise("VisaIOError")
       /\ UNCHANGED << wire, faults >>

\* loadTSP: self._write('loadscript')
LoadTSPBegin ==
    /\ wpc = "loadscript"
    /\ WorkerWrite("loadscript", "open")
    /\ steps' = IF outcome' = "none" THEN Append(steps, "loadscript") ELSE steps
    /\ UNCHANGED << via, scan, cancel_check, data_callback, inst, cancel_requested, cancelAt,
                    lateLines, script, idx,
                    aidx, persisted >>
    /\ UNCHANGED readerVars
    /\ UNCHANGED guiVars
    /\ UNCHANGED sweeps
    /\ UNCHANGED sideVars

\* loadTSP: open(tsp_dir + tsp); a missing file raises FileNotFoundError, which
\* loadTSP turns into SystemExit.
LoadTSPOpen ==
    /\ wpc = "open"
    /\ \/ /\ Raise("SystemExit")
          /\ UNCHANGED << script, idx, steps >>
       \/ \E f \in FileContents :
            /\ script' = f
            /\ idx' = 1
            /\ wpc' = IF f = <<>> THEN "endscript" ELSE "line"
            /\ steps' = Append(steps, ScriptOf(scan))
            /\ UNCHANGED outcome
    /\ UNCHANGED << via, scan, cancel_check, data_callback, inst, cancel_requested, cancelAt,
                    lateLines, aidx, wire,
                    persisted, faults, sweeps >>
    /\ UNCHANGED readerVars
    /\ UNCHANGED guiVars
    /\ UNCHANGED sideVars

\* The place loadTSP goes to after writing line i of a file of n lines.
AfterLine(i, n) == IF i >= n THEN "endscript" ELSE "line"

\* loadTSP: for line in file: self._write(line)
LoadTSPLine ==
    /\ wpc = "line"
    /\ WorkerWrite(script[idx], AfterLine(idx, Len(script)))
    /\ idx' = idx + 1
    /\ UNCHANGED << via, scan, cancel_check, data_callback, inst, cancel_requested, cancelAt,
                    lateLines, script,
                    aidx, persisted, steps, sweeps >>
    /\ UNCHANGED readerVars
    /\ UNCHANGED guiVars
    /\ UNCHANGED sideVars

\* loadTSP: self._write('endscript')
LoadTSPEnd ==
    /\ wpc = "endscript"
    /\ WorkerWrite("endscript", "run")
    /\ steps' = IF outcome' = "none" THEN Append(steps, "endscript") ELSE steps
    /\ UNCHANGED << via, scan, cancel_check, data_callback, inst, cancel_requested, cancelAt,
                    lateLines, script, idx,
                    aidx, persisted, sweeps >>
    /\ UNCHANGED readerVars
    /\ UNCHANGED guiVars
    /\ UNCHANGED sideVars

\* runTSP: self._write('script.anonymous.run()'); _readRealTimeData then starts
\* with empty lists.
RunTSP ==
    /\ wpc = "run"
    /\ WorkerWrite(RunCommand, "check")
    /\ steps' = IF outcome' = "none" THEN Append(steps, "run") ELSE steps
    /\ rlog' = <<>>
    /\ gate_voltages' = <<>>
    /\ channel_currents' = <<>>
    /\ snapshots' = <<>>
    /\ waited' = 0
    /\ UNCHANGED << via, scan, cancel_check, data_callback, inst, cancel_requested, cancelAt,
                    lateLines, script, idx,
                    aidx, persisted, sweeps, nlines >>
    /\ UNCHANGED guiVars
    /\ UNCHANGED sideVars

\* CancelCheck with a callable that never reports the flag.
CancelCheck_Deaf(cc, flag) ==
    IF cc = "None" THEN "read"
    ELSE IF cc = "False" THEN "TypeError"
    ELSE "read"

\* What "cancel_check is not None and cancel_check()" does: "read" when it is
\* false, "abort" when it is true, "TypeError" when cancel_check is the bool
\* False, which is not None and not callable.
CancelCheck(cc, flag) ==
    IF cc = "None" THEN "read"
    ELSE IF cc = "False" THEN "TypeError"
    ELSE IF flag THEN "abort" ELSE "read"

\* _readRealTimeData: the cancellation test at the top of the loop.
ReaderCheck ==
    /\ wpc = "check"
    /\ IF CancelCheck(cancel_check, cancel_requested) = "TypeError"
       THEN Raise("TypeError") /\ UNCHANGED aidx
       ELSE /\ wpc' = CancelCheck(cancel_check, cancel_requested)
            /\ aidx' = 1
            /\ UNCHANGED outcome
    /\ steps' = IF CancelCheck(cancel_check, cancel_requested) = "abort"
                THEN Append(steps, "cancel") ELSE steps
    /\ UNCHANGED << via, scan, cancel_check, data_callback, inst, cancel_requested, cancelAt,
                    lateLines, script, idx,
                    wire, persisted, faults, sweeps >>
    /\ UNCHANGED readerVars
    /\ UNCHANGED guiVars
    /\ UNCHANGED sideVars

\* _readRealTimeData: self.cancelOperation() and the raise after it.  The
\* worker writes AbortSeq[aidx]; cancelOperation's bare except swallows a
\* write that raises and skips the rest; UserCancelledError is raised after it
\* either way.
ReaderAbort ==
    /\ wpc = "abort"
    /\ \/ /\ inst \in {"absent", "open"}
          /\ wire' = IF inst = "open"
                     THEN Append(wire, [who |-> "worker", cmd |-> AbortSeq[aidx]])
                     ELSE wire
          /\ IF aidx < Len(AbortSeq)
             THEN aidx' = aidx + 1 /\ UNCHANGED << wpc, outcome >>
             ELSE Raise("UserCancelledError") /\ UNCHANGED aidx
          /\ UNCHANGED faults
       \/ /\ inst = "open"
          /\ faults < MaxFaults
          /\ faults' = faults + 1
          /\ Raise("UserCancelledError")
          /\ UNCHANGED << wire, aidx >>
       \/ /\ inst = "closed"
          /\ Raise("UserCancelledError")
          /\ UNCHANGED << wire, aidx, faults >>
    /\ UNCHANGED << via, scan, cancel_check, data_callback, inst, cancel_requested, cancelAt,
                    lateLines, script, idx,
                    persisted, steps, sweeps >>
    /\ UNCHANGED readerVars
    /\ UNCHANGED guiVars
    /\ UNCHANGED sideVars

\* RealtimeFrame handing the sink the newest record alone instead of
\* everything accumulated.
RealtimeFrame_LastRow(gv, cc) ==
    [gate |-> << gv[Len(gv)] >>, current |-> << cc[Len(cc)] >>]

\* _readRealTimeData: df_realtime, the DataFrame built from the two lists and
\* given to data_callback; pandas copies the lists' values into the frame.
RealtimeFrame(gv, cc) == [gate |-> gv, current |-> cc]

\* self.inst.timeout = 500000: the milliseconds a read waits for a line
\* before pyvisa raises VisaIOError.
ReadTimeout == 500000

\* The steps of waiting told apart within one timeout.
WaitSteps == 2

\* The milliseconds one step of waiting takes.
TickMs == ReadTimeout \div WaitSteps

\* TimedOut with the read giving up one step of waiting early.
TimedOut_Early(w) == w + TickMs >= ReadTimeout

\* The read has waited as long as the session's timeout allows.
TimedOut(w) == w >= ReadTimeout

\* The lines the instrument may emit as the next line of a scan: any line
\* while the call's budget of lines lasts, and D3 after D1 and D2, so that the
\* three-line stream D1, D2, D3, EE is always among the streams.
NextLines ==
    (IF nlines < MaxLines THEN Lines ELSE {EE})
        \cup (IF rlog = << D1, D2 >> THEN {D3} ELSE {})

\* _readRealTimeData: line = self.inst.read() and the handling of the line.
ReaderRead ==
    /\ wpc = "read"
    /\ \/ /\ inst = "absent"
          /\ Raise("AttributeError")
          /\ UNCHANGED << faults, steps >>
          /\ UNCHANGED readerVars
       \/ /\ inst = "closed"
          /\ Raise("VisaIOError")
          /\ UNCHANGED << faults, steps >>
          /\ UNCHANGED readerVars
       \/ /\ inst = "open"
          /\ faults < MaxFaults
          /\ faults' = faults + 1
          /\ \E k \in FaultKinds : Raise(k)
          /\ UNCHANGED steps
          /\ UNCHANGED readerVars
       \/ /\ inst = "open"
          /\ TimedOut(waited)
          /\ Raise("VisaIOError")
          /\ UNCHANGED << faults, steps >>
          /\ UNCHANGED readerVars
       \/ /\ inst = "open"
          /\ \E line \in NextLines :
               /\ rlog' = Append(rlog, line)
               /\ nlines' = IF line = EE THEN nlines ELSE nlines + 1
               /\ waited' = 0
               /\ steps' = IF rlog = <<>> THEN Append(steps, "read") ELSE steps
               /\ IF Accepted(line)
                  THEN /\ gate_voltages' =
                            IF IsFloat(Values(line)[GateField])
                            THEN Append(gate_voltages, Float(Values(line)[GateField]))
                            ELSE gate_voltages
                       /\ channel_currents' =
                            IF Parses(line)
                            THEN Append(channel_currents, Float(Values(line)[CurrentField]))
                            ELSE channel_currents
                       /\ snapshots' =
                            IF Parses(line) /\ data_callback # "None"
                            THEN Append(snapshots,
                                        RealtimeFrame(gate_voltages', channel_currents'))
                            ELSE snapshots
                       /\ IF Parses(line)
                          THEN wpc' = "check" /\ UNCHANGED outcome
                          ELSE Raise("ValueError")
                  ELSE /\ wpc' = IF IsEndLine(line) THEN "persist" ELSE "check"
                       /\ UNCHANGED << gate_voltages, channel_currents, snapshots,
                                       outcome >>
          /\ UNCHANGED faults
    /\ lateLines' = IF cancel_requested /\ Len(rlog') > Len(rlog)
                    THEN Append(lateLines, rlog'[Len(rlog')])
                    ELSE lateLines
    /\ UNCHANGED << via, scan, cancel_check, data_callback, inst, cancel_requested, cancelAt,
                    script, idx, aidx, wire, persisted, sweeps >>
    /\ UNCHANGED guiVars
    /\ UNCHANGED sideVars

\* ReaderResult returning a table whatever the lists hold, an empty one for
\* empty lists.
ReaderResult_AlwaysTable(gv, cc) == [none |-> FALSE, gate |-> gv, current |-> cc]

\* _readRealTimeData: inst.read() goes on waiting, no line having arrived and
\* the session's timeout not having expired; nothing else happens.
ReaderWait ==
    /\ wpc = "read"
    /\ inst = "open"
    /\ ~TimedOut(waited)
    /\ waited' = waited + TickMs
    /\ UNCHANGED << via, wpc, scan, cancel_check, data_callback, inst, cancel_requested,
                    cancelAt, lateLines, script, idx, aidx, wire, rlog, nlines,
                    gate_voltages,
                    channel_currents, snapshots, persisted, steps, outcome, faults,
                    sweeps >>
    /\ UNCHANGED guiVars
    /\ UNCHANGED sideVars

\* What _readRealTimeData returns after the loop: a DataFrame of the two
\* lists, or None when a list is empty.
ReaderResult(gv, cc) ==
    IF gv # <<>> /\ cc # <<>>
    THEN [none |-> FALSE, gate |-> gv, current |-> cc]
    ELSE [none |-> TRUE, gate |-> <<>>, current |-> <<>>]

\* Transfer: the scan's table is written when it is not None; the reverse
\* scan follows the forward one, and Transfer returns after the reverse one.
Persist ==
    /\ wpc = "persist"
    /\ LET df == ReaderResult(gate_voltages, channel_currents) IN
         /\ persisted' = IF df.none THEN persisted
                         ELSE Append(persisted, [name |-> OutputName(scan), table |-> df])
         /\ steps' = Append(steps, IF df.none THEN "none" ELSE OutputName(scan))
    /\ IF scan = 1
       THEN scan' = 2 /\ wpc' = "loadscript" /\ UNCHANGED outcome
       ELSE /\ outcome' = "completed"
            /\ wpc' = AfterTransfer("completed")
            /\ UNCHANGED scan
    /\ UNCHANGED << via, cancel_check, data_callback, inst, cancel_requested, cancelAt,
                    lateLines, script, idx, aidx,
                    wire, faults, sweeps >>
    /\ UNCHANGED readerVars
    /\ UNCHANGED guiVars
    /\ UNCHANGED sideVars

\* ------------------------------------------- measureThread.run after Transfer
workerVars ==
    << scan, cancel_check, data_callback, lateLines, script, idx, aidx, rlog, nlines,
       gate_voltages,
       channel_currents, snapshots, waited, persisted, steps, outcome >>

\* What K2636.closeConnection leaves of the session: close() closes an open
\* one; the AttributeError of a missing one is printed and swallowed.
CloseConnection(session) == IF session = "open" THEN "closed" ELSE session

\* The signal run's except clauses emit for an exception exc: errorSig for a
\* ConnectionError; for any other Exception finishedSig when cancellation was
\* requested and errorSig otherwise.
HandlerSignal(exc, flag) ==
    IF exc = "ConnectionError" THEN "error"
    ELSE IF flag THEN "finished" ELSE "error"

\* run, after Transfer: when Transfer returned, keithley.closeConnection() and
\* finishedSig.emit(); when it raised an Exception, the except clauses, which
\* emit and do not close.  run then ends.
ThreadRunTail ==
    /\ wpc = "tail"
    /\ inst' = IF Returned(outcome) THEN CloseConnection(inst) ELSE inst
    /\ LET sig == IF Returned(outcome) THEN "finished"
                  ELSE HandlerSignal(outcome, cancel_requested) IN
         /\ emitted' = Append(emitted, sig)
         /\ sigq' = Append(sigq, sig)
    /\ wpc' = "ended"
    /\ UNCHANGED << via, cancel_requested, cancelAt, wire, faults, sweeps,
                    transferEnabled, guiKeithley, gpc, cancels >>
    /\ UNCHANGED workerVars
    /\ UNCHANGED sideVars

\* ---------------------------------------------------------- the GUI thread
\* GUI.transferSweep: without a sample name a warning pops up; otherwise the
\* buttons are hidden and a K2636 is constructed on config.ADDRESS
\* (ConnectionError leaves the handler).  Then a measureThread is created on
\* it: with no thread running it is started; with the previous thread still
\* running, replacing GUI.measureThread runs the old object's __del__, whose
\* wait() blocks the GUI thread until that thread has ended.
TransferSweep ==
    /\ via = "thread"
    /\ gpc = 0
    /\ ~pendingStart
    /\ transferEnabled
    /\ sweeps < MaxSweeps
    /\ \E hasName \in BOOLEAN, up \in BOOLEAN :
         IF ~hasName THEN UNCHANGED vars
         ELSE /\ transferEnabled' = FALSE
              /\ IF MakeConnection(config_address, config_address, up) # "open"
                 THEN /\ UNCHANGED << wpc, inst, cancel_requested, cancelAt, wire, sweeps,
                                       guiKeithley, emitted, pendingStart >>
                      /\ UNCHANGED workerVars
                 ELSE /\ guiKeithley' = TRUE
                      /\ IF IsRunning
                         THEN /\ pendingStart' = TRUE
                              /\ UNCHANGED << wpc, inst, cancel_requested, cancelAt, wire,
                                              sweeps, emitted >>
                              /\ UNCHANGED workerVars
                         ELSE /\ StartTransfer("False", "None", "open")
                              /\ UNCHANGED pendingStart
              /\ UNCHANGED << via, faults, gpc, sigq, cancels, config_address, lastOpen,
                              closeLog, buf >>

\* GUI.transferSweep after the old thread has ended: the old measureThread
\* is destroyed, and its signals whose slots have not run yet are either
\* still delivered or lost with it; the new thread is started.
TransferSweepResume ==
    /\ pendingStart
    /\ wpc = "ended"
    /\ pendingStart' = FALSE
    /\ StartTransfer("False", "None", "open")
    /\ sigq' \in {sigq, <<>>}
    /\ UNCHANGED << via, faults, gpc, cancels, transferEnabled, guiKeithley,
                    config_address, lastOpen, closeLog, buf >>

\* keithleyConnectionWindow.reconnect2keithley, the Connect button of the
\* connection window, with the text of the address field: a K2636 is
\* constructed for it; on success connectionSig shows the buttons, the session
\* is closed and config.ADDRESS becomes the text.
Reconnect ==
    /\ via = "thread"
    /\ gpc = 0
    /\ ~pendingStart
    /\ \E text \in Addresses, up \in BOOLEAN :
         IF MakeConnection(text, config_address, up) = "open"
         THEN /\ transferEnabled' = TRUE
              /\ config_address' = text
         ELSE UNCHANGED << transferEnabled, config_address >>
    /\ UNCHANGED << via, wpc, inst, cancel_requested, cancelAt, wire, faults, sweeps,
                    guiKeithley, gpc, sigq, cancels, emitted, lastOpen, pendingStart,
                    closeLog, buf >>
    /\ UNCHANGED workerVars

\* GUI.cancelOperation: with a running thread measureThread.cancel() sets the
\* flag and then calls keithley.cancelOperation() on the shared K2636; with no
\* thread running it aborts on a temporary connection when GUI.keithley is
\* None and on GUI.keithley otherwise.
CancelOperation ==
    /\ via = "thread"
    /\ gpc = 0
    /\ ~pendingStart
    /\ cancels < MaxCancels
    /\ cancels' = cancels + 1
    /\ IF IsRunning
       THEN cancel_requested' = TRUE /\ cancelAt' = wpc /\ gpc' = 1
       ELSE IF ~guiKeithley
       THEN UNCHANGED << cancel_requested, cancelAt, gpc >>
       ELSE gpc' = 1 /\ UNCHANGED << cancel_requested, cancelAt >>
    /\ UNCHANGED sideVars
    /\ UNCHANGED << via, wpc, inst, wire, faults, sweeps, transferEnabled,
                    guiKeithley, sigq, emitted >>
    /\ UNCHANGED workerVars

\* K2636.cancelOperation on the GUI thread: one _write of AbortSeq per step;
\* the bare except swallows a write that raises and skips the rest.
GuiAbortWrite ==
    /\ gpc > 0
    /\ \/ /\ inst \in {"absent", "open"}
          /\ wire' = IF inst = "open"
                     THEN Append(wire, [who |-> "gui", cmd |-> AbortSeq[gpc]])
                     ELSE wire
          /\ gpc' = IF gpc < Len(AbortSeq) THEN gpc + 1 ELSE 0
          /\ UNCHANGED faults
       \/ /\ inst = "open"
          /\ faults < MaxFaults
          /\ faults' = faults + 1
          /\ gpc' = 0
          /\ UNCHANGED wire
       \/ /\ inst = "closed"
          /\ gpc' = 0
          /\ UNCHANGED << wire, faults >>
    /\ UNCHANGED << via, wpc, inst, cancel_requested, cancelAt, sweeps, transferEnabled,
                    guiKeithley, sigq, cancels, emitted >>
    /\ UNCHANGED workerVars
    /\ UNCHANGED sideVars

\* GUI.done, the slot of finishedSig: the buttons are shown again.
Done ==
    /\ gpc = 0
    /\ ~pendingStart
    /\ sigq # <<>>
    /\ Head(sigq) = "finished"
    /\ sigq' = Tail(sigq)
    /\ transferEnabled' = TRUE
    /\ UNCHANGED << via, wpc, inst, cancel_requested, cancelAt, wire, faults, sweeps,
                    guiKeithley, gpc, cancels, emitted >>
    /\ UNCHANGED workerVars
    /\ UNCHANGED sideVars

\* GUI.error, the slot of errorSig: a warning pops up, the buttons stay hidden.
Error ==
    /\ gpc = 0
    /\ ~pendingStart
    /\ sigq # <<>>
    /\ Head(sigq) = "error"
    /\ sigq' = Tail(sigq)
    /\ transferEnabled' = FALSE
    /\ UNCHANGED << via, wpc, inst, cancel_requested, cancelAt, wire, faults, sweeps,
                    guiKeithley, gpc, cancels, emitted >>
    /\ UNCHANGED workerVars
    /\ UNCHANGED sideVars

\* ------------------------------------------------- the driver called directly
\* The values Transfer's cancel_check parameter takes.
CancelChecks == {"False", "None", "callable"}

\* The values Transfer's data_callback parameter takes.
DataCallbacks == {"None", "callable"}

\* K2636.Transfer(sample, cancel_check, data_callback) called once by a caller of the
\* driver, on an object with an open session, with none, or with one that
\* closeConnection has closed.
DirectTransfer ==
    /\ via = "direct"
    /\ wpc = "idle"
    /\ \E cc \in CancelChecks, cb \in DataCallbacks,
          session \in {"open", "absent", "closed"} :
         StartTransfer(cc, cb, session)
    /\ closeLog' = <<>>
    /\ buf' = NoBuffer
    /\ lastOpen' = NoAttempt
    /\ UNCHANGED << via, faults, transferEnabled, guiKeithley, gpc, sigq, cancels,
                    config_address, pendingStart >>

\* K2636(address) constructed by a caller of the driver; without an address
\* the constructor takes config.ADDRESS.
DirectOpen ==
    /\ via = "direct"
    /\ wpc = "idle"
    /\ closeLog = <<>>
    /\ buf = NoBuffer
    /\ \E address \in Addresses \cup {NoAddress}, up \in BOOLEAN :
         LET given == IF address = NoAddress THEN config_address ELSE address IN
         /\ lastOpen' = Attempt(given, config_address, up)
         /\ inst' = IF MakeConnection(given, config_address, up) = "open"
                    THEN "open" ELSE "absent"
    /\ UNCHANGED << via, wpc, cancel_requested, cancelAt, wire, faults, sweeps,
                    transferEnabled, guiKeithley, gpc, sigq, cancels, emitted,
                    config_address, pendingStart, closeLog,
                    buf >>
    /\ UNCHANGED workerVars

\* K2636.closeConnection() called by a caller of the driver: the first call
\* on a new object, with an open session or with none, the later calls on
\* what the earlier ones left.
DirectClose ==
    /\ via = "direct"
    /\ wpc = "idle"
    /\ Len(closeLog) < MaxCloses
    /\ \E session \in IF closeLog = <<>> /\ buf = NoBuffer THEN {"open", "absent"}
                       ELSE {inst} :
         /\ closeLog' = Append(closeLog, [before |-> session,
                                          report |-> CloseReport(session),
                                          raised |-> "none"])
         /\ inst' = CloseConnection(session)
    /\ UNCHANGED << via, wpc, cancel_requested, cancelAt, wire, faults, sweeps,
                    transferEnabled, guiKeithley, gpc, sigq, cancels, emitted,
                    config_address, lastOpen, pendingStart,
                    buf >>
    /\ UNCHANGED workerVars

\* K2636.readBuffer() called by a caller of the driver on a new object, with
\* an open session or with none; evs is what the transport does to each of
\* the four queries.
DirectReadBuffer ==
    /\ via = "direct"
    /\ wpc = "idle"
    /\ closeLog = <<>>
    /\ buf = NoBuffer
    /\ \E session \in {"open", "absent"}, evs \in [1..Len(BufferQueries) -> QueryEvents] :
         /\ inst' = session
         /\ buf' = [ session |-> session,
                     events |-> SubSeq(evs, 1, Len(ReadBuffer(session, evs).issued)),
                     issued |-> ReadBuffer(session, evs).issued,
                     outcome |-> ReadBuffer(session, evs).outcome,
                     table |-> ReadBuffer(session, evs).table ]
    /\ UNCHANGED << via, wpc, cancel_requested, cancelAt, wire, faults, sweeps,
                    transferEnabled, guiKeithley, gpc, sigq, cancels, emitted,
                    config_address, lastOpen, pendingStart,
                    closeLog >>
    /\ UNCHANGED workerVars

\* The actor that owns the flag a callable cancel_check reads sets it.
RequestCancel ==
    /\ via = "direct"
    /\ cancel_check = "callable"
    /\ wpc \notin {"idle", "ended"}
    /\ ~cancel_requested
    /\ cancels < MaxCancels
    /\ cancel_requested' = TRUE
    /\ cancelAt' = wpc
    /\ cancels' = cancels + 1
    /\ UNCHANGED << via, wpc, inst, wire, faults, sweeps, transferEnabled,
                    guiKeithley, gpc, sigq, emitted >>
    /\ UNCHANGED workerVars
    /\ UNCHANGED sideVars

Next ==
    \/ LoadTSPBegin
    \/ LoadTSPOpen
    \/ LoadTSPLine
    \/ LoadTSPEnd
    \/ RunTSP
    \/ ReaderCheck
    \/ ReaderAbort
    \/ ReaderRead
    \/ ReaderWait
    \/ Persist
    \/ ThreadRunTail
    \/ TransferSweep
    \/ CancelOperation
    \/ GuiAbortWrite
    \/ Done
    \/ Error
    \/ DirectTransfer
    \/ RequestCancel
    \/ TransferSweepResume
    \/ Reconnect
    \/ DirectOpen
    \/ DirectClose
    \/ DirectReadBuffer

Spec == Init /\ [][Next]_vars

\* The driver alone, called directly: device.py run as a script.
InitDriver == Init /\ via = "direct"

NextDriver ==
    \/ LoadTSPBegin
    \/ LoadTSPOpen
    \/ LoadTSPLine
    \/ LoadTSPEnd
    \/ RunTSP
    \/ ReaderCheck
    \/ ReaderAbort
    \/ ReaderRead
    \/ ReaderWait
    \/ Persist
    \/ DirectTransfer
    \/ RequestCancel
    \/ DirectOpen
    \/ DirectClose
    \/ DirectReadBuffer

SpecDriver == InitDriver /\ [][NextDriver]_vars

TypeOK ==
    /\ via \in {"thread", "direct"}
    /\ wpc \in {"idle", "loadscript", "open", "line", "endscript", "run", "check",
                "abort", "read", "persist", "tail", "ended"}
    /\ scan \in {1, 2}
    /\ cancel_check \in CancelChecks
    /\ data_callback \in DataCallbacks
    /\ Len(snapshots) <= Len(channel_currents)
    /\ waited \in 0..(ReadTimeout + TickMs)
    /\ Len(lateLines) <= Len(rlog) + IF scan = 2 THEN MaxLines + 2 ELSE 0
    /\ inst \in {"absent", "open", "closed"}
    /\ cancel_requested \in BOOLEAN
    /\ gpc \in 0..Len(AbortSeq)
    /\ Len(gate_voltages) >= Len(channel_currents)
    /\ Len(rlog) <= MaxLines + 2
    /\ Len(persisted) <= 2
    /\ config_address \in Addresses
    /\ Supported(config_address)
    /\ lastOpen.result \in {"none", "open", "ConnectionError"}
    /\ pendingStart => (via = "thread" /\ gpc = 0)
    /\ Len(closeLog) <= MaxCloses
    /\ buf.outcome \in {"none", "table", "ValueError", "VisaIOError"}

\* ------------------------------------------------------ reading the history
IsPrefix(a, b) == Len(a) <= Len(b) /\ SubSeq(b, 1, Len(a)) = a

AbortCmds == {AbortSeq[i] : i \in 1..Len(AbortSeq)}

IsAbortWrite(e) == e.cmd \in AbortCmds
IsWorkerWrite(e) == e.who = "worker"
IsGuiWrite(e) == e.who = "gui"

CmdsOf(w) == [i \in 1..Len(w) |-> w[i].cmd]

\* The abort commands on the wire, from every actor, in the order they arrived.
AbortWrites == CmdsOf(SelectSeq(wire, IsAbortWrite))

\* The flag was set while the worker had not yet ended its reading.
CancelledBeforeRead ==
    cancelAt \in {"loadscript", "open", "line", "endscript", "run", "check", "read"}

\* C1: a sweep of the application that got as far as running its script, saw no
\* transport fault and had cancellation requested through measureThread.cancel
\* before a further read ends with the abort sequence on the wire exactly once,
\* in order, counting every actor's writes, and with the outcome Cancelled.
C1_CancelledOnceAndReported ==
    ( /\ via = "thread"
      /\ wpc = "ended"
      /\ CancelledBeforeRead
      /\ faults = 0
      /\ \E i \in 1..Len(steps) : steps[i] = "run" )
    => (AbortWrites = AbortSeq /\ outcome = "UserCancelledError")

\* C2: in a sweep the application starts, the test the stream reader makes
\* before each read is a test of the shared flag: it aborts when the flag is
\* set and reads when it is not.
C2_ReaderConsultsFlag ==
    (via = "thread" /\ wpc = "check")
    => CancelCheck(cancel_check, cancel_requested)
         = IF cancel_requested THEN "abort" ELSE "read"

\* A data line as the protocol defines it, read off the text: after the
\* surrounding whitespace the line begins with @@ and holds at least three
\* commas, hence at least four fields.
CommaCount(s) == Cardinality({i \in 1..Len(s) : s[i] = ","})

ProtocolAccepts(line) ==
    /\ Len(Strip(line)) >= 2
    /\ Strip(line)[1] = "@"
    /\ Strip(line)[2] = "@"
    /\ CommaCount(line) >= 3

ProtocolEnds(line) ==
    /\ Len(Strip(line)) >= 2
    /\ Strip(line)[1] = "E"
    /\ Strip(line)[2] = "E"

\* The accepted data lines among the lines read before the last one.
AcceptedBeforeEnd(log) == SelectSeq(SubSeq(log, 1, Len(log) - 1), ProtocolAccepts)

\* The rows of what the reader returns (None has none).
Rows(df) == IF df.none THEN 0 ELSE Len(df.gate)

\* C3: when the stream reader returns, the last line it read is the first EE
\* line of the stream, and its lists hold one record per accepted data line read
\* before that EE line, in arrival order; the table it returns has that many rows.
C3_RowsAreAcceptedLinesBeforeEE ==
    wpc = "persist" =>
        LET acc == AcceptedBeforeEnd(rlog) IN
        /\ rlog # <<>>
        /\ ProtocolEnds(rlog[Len(rlog)])
        /\ \A i \in 1..(Len(rlog) - 1) : ~ProtocolEnds(rlog[i])
        /\ Len(gate_voltages) = Len(acc)
        /\ Len(channel_currents) = Len(acc)
        /\ \A k \in 1..Len(acc) :
             /\ gate_voltages[k] = Float(Values(acc[k])[1])
             /\ channel_currents[k] = Float(Values(acc[k])[4])
        /\ Rows(ReaderResult(gate_voltages, channel_currents)) = Len(acc)

\* C3's case: the reader has returned after reading an accepted line, a
\* discarded line and EE.
C3_Witness ==
    /\ wpc = "persist"
    /\ Len(rlog) = 3
    /\ Len(gate_voltages) = 1
    /\ \E i \in 1..2 : ~ProtocolAccepts(rlog[i])

\* The worker went through the cancellation branch of the current Transfer call.
TookCancelBranch == \E i \in 1..Len(steps) : steps[i] = "cancel"

\* C4: a call that took the cancellation branch ends by raising the
\* cancellation condition and never by returning, the scan it cancelled has no
\* file, and a call that completed never took the cancellation branch.
C4_SuccessXorCancelled ==
    /\ (TookCancelBranch /\ outcome # "none") => outcome = "UserCancelledError"
    /\ TookCancelBranch =>
         /\ wpc # "persist"
         /\ Len(persisted) <= scan - 1
         /\ \A i \in 1..Len(persisted) : persisted[i].name # OutputName(scan)
    /\ outcome = "UserCancelledError" => TookCancelBranch
    /\ (outcome = "completed" \/ wpc = "persist") => ~TookCancelBranch

\* C4's case: a call was cancelled with records already accumulated.
C4_Witness ==
    /\ outcome = "UserCancelledError"
    /\ gate_voltages # <<>>
    /\ channel_currents # <<>>

\* C5: a measureThread whose run has ended has emitted exactly one signal.
C5_OneTerminalSignal ==
    (via = "thread" /\ wpc = "ended") => Len(emitted) = 1

\* C6: the signal of completion is emitted only for a sweep that ran both
\* scans to their EE lines: never for a cancelled sweep and never for a failed one.
C6_FinishedOnlyWhenCompleted ==
    (via = "thread" /\ wpc = "ended")
    => \A i \in 1..Len(emitted) : emitted[i] = "finished" => outcome = "completed"

\* C7: when measureThread.run has ended, the session opened for the sweep is
\* not open.
C7_SessionClosedAtEnd ==
    (via = "thread" /\ wpc = "ended") => inst # "open"

\* C8: while the worker is running a sweep, every write on the connection is
\* the worker's.
C8_OnlyWorkerWrites ==
    IsRunning => \A i \in 1..Len(wire) : IsWorkerWrite(wire[i])

\* The position of the last write of command c on the wire (0 when there is none).
LastWrite(c) ==
    IF \E i \in 1..Len(wire) : wire[i].cmd = c
    THEN CHOOSE i \in 1..Len(wire) :
           wire[i].cmd = c /\ \A j \in (i + 1)..Len(wire) : wire[j].cmd # c
    ELSE 0

\* The writes that reached the instrument between the last loadscript and the
\* last endscript.
BetweenMarkers ==
    CmdsOf(SubSeq(wire, LastWrite("loadscript") + 1, LastWrite("endscript") - 1))

\* C9: when loadTSP has returned on an open session, the writes the instrument
\* received between loadscript and endscript are the file's lines in order.
C9_UploadIsVerbatim ==
    (wpc = "run" /\ inst = "open") => BetweenMarkers = script

\* loadTSP's own writes between the markers are the file's lines in order.
LoadTSPOwnWrites ==
    (wpc = "run" /\ inst = "open") =>
        LET own == SelectSeq(wire, IsWorkerWrite) IN
        LET n == Len(own) IN
        /\ n >= Len(script) + 2
        /\ own[n].cmd = "endscript"
        /\ own[n - Len(script) - 1].cmd = "loadscript"
        /\ \A i \in 1..Len(script) : own[n - Len(script) - 1 + i].cmd = script[i]

\* The steps of a Transfer call that persists p1 after the forward scan and p2
\* after the reverse scan.
StepOrder(p1, p2) ==
    << "loadscript", ForwardScript, "endscript", "run", "read", p1,
       "loadscript", ReverseScript, "endscript", "run", "read", p2 >>

NotCancelStep(x) == x # "cancel"

\* The last two commands the worker wrote.
LastTwoWorkerWrites ==
    LET own == CmdsOf(SelectSeq(wire, IsWorkerWrite)) IN
    IF Len(own) < 2 THEN <<>> ELSE SubSeq(own, Len(own) - 1, Len(own))

\* The file a scan writes for the lists gv and cc.
FileOf(n, gv, cc) == [name |-> OutputName(n), table |-> ReaderResult(gv, cc)]

Count(q, x) == Cardinality({i \in 1..Len(q) : q[i] = x})

\* C11: a Transfer call whose forward scan took the cancellation branch never
\* uploads or runs the reverse script, persists no file, and ends only by
\* raising the cancellation condition.
C11_ForwardCancelSkipsReverse ==
    (TookCancelBranch /\ scan = 1) =>
        /\ wpc \in {"abort", "tail", "ended"}
        /\ outcome \in {"none", "UserCancelledError"}
        /\ wpc # "abort" => outcome = "UserCancelledError"
        /\ persisted = <<>>
        /\ Count(steps, ReverseScript) = 0
        /\ Count(steps, "loadscript") = 1
        /\ Count(steps, "run") = 1
        /\ Count(CmdsOf(SelectSeq(wire, IsWorkerWrite)), RunCommand) <= 1
        /\ steps[Len(steps)] = "cancel"

\* C11's case: the forward scan of a call on an open session was cancelled
\* after it had accumulated records, and the call has ended.
C11_Witness ==
    /\ wpc = "ended"
    /\ scan = 1
    /\ inst = "open"
    /\ TookCancelBranch
    /\ gate_voltages # <<>>
    /\ outcome = "UserCancelledError"

\* What the connection received after the last run command: in a call of the
\* driver that was cancelled, the writes of its cancelOperation.
WritesAfterRun == CmdsOf(SubSeq(wire, LastWrite(RunCommand) + 1, Len(wire)))

\* The commands the GUI thread wrote, in order.
GuiWrites == CmdsOf(SelectSeq(wire, IsGuiWrite))

\* A cancelOperation of the worker ran to its end on an open session with no
\* transport fault.
WorkerAbortComplete ==
    /\ via = "direct"
    /\ outcome = "UserCancelledError"
    /\ inst = "open"
    /\ faults = 0

FourCommands ==
    << "abort",
       "smua.source.output = smua.OUTPUT_OFF",
       "smub.source.output = smub.OUTPUT_OFF",
       "reset()" >>

GuiAbortOrder ==
    (via = "thread" /\ gpc = 0 /\ faults = 0 /\ inst = "open") =>
        /\ Len(GuiWrites) % 4 = 0
        /\ \A i \in 1..Len(GuiWrites) : GuiWrites[i] = FourCommands[((i - 1) % 4) + 1]

C13_AbortIsAUnit ==
    (wpc # "abort" /\ gpc = 0) =>
        \A i \in 1..Len(wire) :
            IsAbortWrite(wire[i]) =>
                \E k \in 1..Len(wire) :
                    /\ k <= i
                    /\ i <= k + Len(AbortSeq) - 1
                    /\ k + Len(AbortSeq) - 1 <= Len(wire)
                    /\ \A j \in 1..Len(AbortSeq) :
                         /\ wire[k + j - 1].cmd = AbortSeq[j]
                         /\ wire[k + j - 1].who = wire[i].who

C19_ScenarioTable ==
    (wpc = "persist" /\ rlog = << D1, D2, D3, EE >>) =>
        ReaderResult(gate_voltages, channel_currents) =
            [ none |-> FALSE,
              gate |-> << FloatValue("1.0"), FloatValue("1.5"), FloatValue("2.0") >>,
              current |-> << FloatValue("2.0"), FloatValue("2.3"), FloatValue("2.6") >> ]

\* The positions of line whose token is a numeral lying after k - 1 commas:
\* the numeral of the k-th comma-separated field.
NumeralAt(line, k) ==
    {p \in 1..Len(line) :
        /\ line[p] \in Numerals
        /\ Cardinality({q \in 1..(p - 1) : line[q] = ","}) = k - 1}

\* The number the k-th field of line holds.
FieldValue(line, k) == FloatValue(line[CHOOSE p \in NumeralAt(line, k) : TRUE])

\* An accepted data line whose first and fourth fields are numbers.
AcceptedNumeric(line) ==
    /\ ProtocolAccepts(line)
    /\ NumeralAt(line, 1) # {}
    /\ NumeralAt(line, 4) # {}

\* C20: reading an accepted data line appends one record: the number of the
\* line's first field to the gate voltages and the number of its fourth field
\* to the channel currents; nothing of the second and third fields is kept.
C20_FirstAndFourthField ==
    [][ (wpc = "read" /\ rlog' # rlog /\ AcceptedNumeric(rlog'[Len(rlog')])) =>
            LET line == rlog'[Len(rlog')] IN
            /\ gate_voltages' = Append(gate_voltages, FieldValue(line, 1))
            /\ channel_currents' = Append(channel_currents, FieldValue(line, 4))
            /\ wpc' = "check" ]_vars

\* C20's case: the reader has just appended the record of a data line whose
\* third and fourth fields differ.
C20_Witness ==
    /\ wpc = "check"
    /\ rlog # <<>>
    /\ rlog[Len(rlog)] = D2
    /\ gate_voltages # <<>>
    /\ gate_voltages[Len(gate_voltages)] = FloatValue("1.5")
    /\ channel_currents[Len(channel_currents)] = FloatValue("0.0012")

\* C14: while a measureThread is running no transferSweep gets through: no
\* second session is opened for a sweep and no second measureThread is created
\* before the first has ended.
C14_SingleJob == ~pendingStart

\* C15: every closeConnection call on a session that was never opened or is
\* already closed reports NotConnected and raises nothing.
C15_CloseReportsNotConnected ==
    \A i \in 1..Len(closeLog) :
        closeLog[i].before \in {"absent", "closed"} =>
            (closeLog[i].report = "NotConnected" /\ closeLog[i].raised = "none")

\* C16: constructing a K2636 for an address fails with ConnectionError exactly
\* when the address is of no supported class or the resource it names cannot
\* be opened, and yields an open session otherwise.
C16_OpenFailsIffUnsupportedOrUnreachable ==
    lastOpen.result # "none" =>
        ( lastOpen.result = "ConnectionError"
            <=> (~Supported(lastOpen.given) \/ ~CanOpen(lastOpen.given, lastOpen.up)) )

\* C18: a readBuffer call on an open session during which the transport
\* reported busy ends in the busy outcome of readBuffer (its SerialException
\* clause, which returns None), has issued each query at most once, and
\* returns no table.
C18_BusyFailsWithTransportBusy ==
    (buf.session = "open" /\ \E k \in 1..Len(buf.events) : buf.events[k] = "busy") =>
        /\ buf.outcome = "None"
        /\ buf.table = <<>>
        /\ \A i, j \in 1..Len(buf.issued) : buf.issued[i] = buf.issued[j] => i = j

\* ------------------------------------------------------- incremental delivery
\* The first k rows of the reader's lists, as a frame.
PrefixFrame(k) ==
    [gate |-> SubSeq(gate_voltages, 1, k), current |-> SubSeq(channel_currents, 1, k)]

\* C21: a reader given a sink has called it once for each record it has
\* appended to its lists and at no other time; the k-th table the sink got is
\* the first k records, so it has k rows and is a prefix of every later one and
\* of the table the reader returns; without a sink nothing is handed over.
C21_SinkGetsEveryPrefix ==
    /\ data_callback = "None" => snapshots = <<>>
    /\ data_callback = "callable" =>
         /\ Len(snapshots) = Len(channel_currents)
         /\ outcome # "ValueError"
              => Len(snapshots) = Len(SelectSeq(rlog, ProtocolAccepts))
         /\ \A k \in 1..Len(snapshots) :
              /\ snapshots[k] = PrefixFrame(k)
              /\ Len(snapshots[k].gate) = k
              /\ \A j \in k..Len(snapshots) :
                   /\ IsPrefix(snapshots[k].gate, snapshots[j].gate)
                   /\ IsPrefix(snapshots[k].current, snapshots[j].current)
              /\ wpc = "persist" =>
                   /\ IsPrefix(snapshots[k].gate,
                               ReaderResult(gate_voltages, channel_currents).gate)
                   /\ IsPrefix(snapshots[k].current,
                               ReaderResult(gate_voltages, channel_currents).current)

\* C21's case: a reader with a sink has returned after three accepted
\* records.
C21_Witness ==
    /\ data_callback = "callable"
    /\ wpc = "persist"
    /\ Len(snapshots) = 3
    /\ rlog = << D1, D2, D3, EE >>
    /\ snapshots[1] # snapshots[2]

\* C22: a read that brings a line that is neither an accepted data line nor
\* an EE line (a data line of fewer than four fields, or noise) leaves the
\* lists as they were, hands the sink nothing, ends neither the loop nor the
\* call and persists nothing: the reader goes back to its cancellation test.
C22_OtherLinesAreSkipped ==
    [][ (wpc = "read" /\ rlog' # rlog
           /\ ~ProtocolAccepts(rlog'[Len(rlog')])
           /\ ~ProtocolEnds(rlog'[Len(rlog')]))
        => /\ gate_voltages' = gate_voltages
           /\ channel_currents' = channel_currents
           /\ snapshots' = snapshots
           /\ persisted' = persisted
           /\ outcome' = outcome
           /\ wpc' = "check" ]_vars

\* C22's case: a reader with a sink, holding one record, has read a data line
\* of three fields and is back at its cancellation test.
C22_Witness ==
    /\ data_callback = "callable"
    /\ wpc = "check"
    /\ rlog = << D1, SH >>
    /\ Len(snapshots) = 1
    /\ Len(gate_voltages) = 1

\* The columns of a readBuffer table.
BufferColumns(t) == << t.gateV, t.channelV, t.channelA, t.gateLeakage >>

\* C24: every table handed out has columns of one length: each table given
\* to the sink, the table the reader returns, each table Transfer persisted and
\* the table readBuffer returns.
C24_ColumnsOfEqualLength ==
    /\ \A k \in 1..Len(snapshots) :
         Len(snapshots[k].gate) = Len(snapshots[k].current)
    /\ wpc = "persist" =>
         Len(ReaderResult(gate_voltages, channel_currents).gate)
           = Len(ReaderResult(gate_voltages, channel_currents).current)
    /\ \A i \in 1..Len(persisted) :
         Len(persisted[i].table.gate) = Len(persisted[i].table.current)
    /\ buf.outcome = "table" =>
         \A i, j \in 1..4 :
           Len(BufferColumns(buf.table)[i]) = Len(BufferColumns(buf.table)[j])

\* C24's case: readBuffer has returned a table of two rows.
C24_Witness ==
    /\ buf.outcome = "table"
    /\ Len(buf.table.gateV) = 2
    /\ Len(buf.table.gateLeakage) = 2

InUpload == wpc \in {"loadscript", "line", "endscript"}

C27_DefaultArgumentsComplete ==
    ( /\ via = "thread"
      /\ cancel_check = "False"
      /\ data_callback = "None"
      /\ inst = "open"
      /\ faults = 0
      /\ cancels = 0
      /\ \A i \in 1..Len(rlog) : ProtocolEnds(rlog[i]) \/ Parses(rlog[i])
      /\ outcome \notin {"none", "SystemExit"} )
    => outcome = "completed"

\* ------------------------------------------------- writes after a cancellation
\* C28: once the flag a callable cancel_check reads is set, the only commands
\* the driver still writes are those of the abort sequence: no loadscript, no
\* script line, no endscript and no run command, of the scan under way or of
\* the reverse scan, reaches the instrument.
C28_NoUploadAfterCancel ==
    [][ (cancel_check = "callable" /\ cancel_requested /\ Len(wire') > Len(wire))
        => IsAbortWrite(wire'[Len(wire')]) ]_vars

\* ------------------------------------------------------- the load bracket
\* The instrument has received a loadscript that no endscript followed.
BracketOpen(w) ==
    \E i \in 1..Len(w) :
        /\ w[i].cmd = "loadscript"
        /\ \A j \in (i + 1)..Len(w) : w[j].cmd # "endscript"

\* C29: a Transfer call that has ended without a transport fault, on whatever
\* path, the one of a missing script file included, has left no loadscript
\* without its endscript on the instrument; and no run command and no second
\* loadscript is written inside an open bracket.
C29_BracketAlwaysClosed ==
    /\ (outcome # "none" /\ faults = 0) => ~BracketOpen(wire)
    /\ \A i \in 2..Len(wire) :
         wire[i].cmd \in {"loadscript", RunCommand}
            => ~BracketOpen(SubSeq(wire, 1, i - 1))

\* ------------------------------------------------------ the address opened
\* C30: a K2636 constructed for an address that got a session got it at the
\* resource that address names, and config.ADDRESS, which reconnect2keithley
\* sets to the entered address after a construction that succeeded, names a
\* resource at which a session can be opened.
C30_OpensTheAddressGiven ==
    /\ lastOpen.result = "open" => lastOpen.target = lastOpen.given
    /\ config_address \in Attached

\* ------------------------------------------------------- a silent instrument
\* A step taken while the worker is in inst.read() on an open session during
\* which no line arrives and the transport reports no fault.
SilentStep == wpc = "read" /\ inst = "open" /\ rlog' = rlog /\ faults' = faults

\* C25 as stated: while no line arrives the worker stays in the read, with no
\* outcome, however long it lasts.
C25_BlockedForever ==
    [][ SilentStep => (wpc' = "read" /\ outcome' = "none") ]_vars

\* C25 as amended: while no line arrives and the read has waited less than
\* the session's timeout of 500000 ms, the worker stays in the read, with no
\* outcome and nothing written, also when cancellation has been requested;
\* without a line it leaves the read only when the timeout has expired, and
\* then the call ends with the transport's error, nothing having been written.
C25_BlockedUntilTimeout ==
    [][ /\ (SilentStep /\ waited < ReadTimeout)
             => (wpc' = "read" /\ outcome' = "none" /\ wire' = wire)
        /\ (SilentStep /\ wpc' # "read")
             => /\ waited >= ReadTimeout
                /\ outcome' = "VisaIOError"
                /\ wire' = wire ]_vars

\* C25's case: cancellation was requested while the worker was in a read, no
\* line came, the read timed out and the call ended with the transport's
\* error, no abort command having been written.
C25_Witness ==
    /\ cancel_check = "callable"
    /\ cancel_requested
    /\ cancelAt = "read"
    /\ waited >= ReadTimeout
    /\ faults = 0
    /\ outcome = "VisaIOError"
    /\ AbortWrites = <<>>

\* ------------------------------------------------- reads after a cancellation
\* C31: a Transfer call given a callable cancellation check reads at most one
\* line after the flag was set, and only when the flag was set while it was
\* in a read; a step made with the flag set appends at most one record, and
\* only by completing that read; the cancellation test that follows takes
\* the abort branch, and the abort ends in the cancellation condition.
C31_AtMostOneMoreRead ==
    /\ [](cancel_check = "callable"
            => /\ Len(lateLines) <= 1
               /\ lateLines # <<>> => cancelAt = "read")
    /\ [][ (cancel_check = "callable" /\ cancel_requested)
           => /\ Len(gate_voltages') > Len(gate_voltages)
                   => /\ Len(rlog') = Len(rlog) + 1
                      /\ Len(gate_voltages') = Len(gate_voltages) + 1
                      /\ lateLines = <<>>
              /\ (wpc = "check" /\ wpc' # wpc) => wpc' = "abort"
              /\ (wpc = "abort" /\ wpc' # wpc)
                   => outcome' = "UserCancelledError" ]_vars

\* C31's case: the flag was set while the reader was in its second read; the
\* line that read brought was appended as the second record, and the call
\* was then aborted and ended as cancelled.
C31_Witness ==
    /\ cancel_check = "callable"
    /\ cancelAt = "read"
    /\ rlog = << D1, D2 >>
    /\ lateLines = << D2 >>
    /\ Len(gate_voltages) = 2
    /\ outcome = "UserCancelledError"
    /\ AbortWrites = AbortSeq

\* ------------------------------------------------ files of a cancelled call
\* C32: a Transfer call that ended by the cancellation condition wrote no
\* reverse file; cancelled in its forward scan it wrote no file, cancelled in
\* its reverse scan it wrote at most the forward file.  The forward file is
\* written, with the forward table, when the forward scan ends with at least
\* one accepted record and not otherwise, and from then on nothing is added
\* to or taken from the files until the reverse scan ends at its EE line, so
\* that a cancellation of the reverse scan leaves the forward file in place.
C32_CancelledKeepsForwardOnly ==
    /\ [](outcome = "UserCancelledError"
            => /\ \A i \in 1..Len(persisted) : persisted[i].name = ForwardName
               /\ Len(persisted) <= 1
               /\ scan = 1 => persisted = <<>>
               /\ (scan = 2 /\ persisted # <<>>) => ~persisted[1].table.none)
    /\ [][ /\ (scan = 1 /\ wpc = "persist" /\ wpc' # wpc)
                => persisted' = IF AcceptedBeforeEnd(rlog) # <<>>
                                THEN << [name |-> ForwardName,
                                         table |-> [none |-> FALSE,
                                                    gate |-> gate_voltages,
                                                    current |-> channel_currents]] >>
                                ELSE <<>>
           /\ (scan = 2 /\ wpc # "persist") => persisted' = persisted ]_vars

\* C32's case: the forward scan ended with a record and its file was
\* written, the reverse scan was cancelled after it had read a record, and
\* the call ended as cancelled with the forward file alone.
C32_Witness ==
    /\ outcome = "UserCancelledError"
    /\ scan = 2
    /\ inst = "open"
    /\ gate_voltages # <<>>
    /\ Len(persisted) = 1
    /\ persisted[1].name = ForwardName
    /\ Count(steps, ReverseScript) = 1

====
